---- MODULE Spec2Model ----
(***************************************************************************)
(* Model of the presentation layer of UnQCoder: the chat-history list item *)
(* (HistoryItem), and the Markdown component's render overrides (div, pre, *)
(* button) and its fence-stripping transform.                              *)
(*                                                                         *)
(* Each component is a state machine of its own over its own variables;    *)
(* SpecHistory, SpecButton, SpecDiv, SpecPre and SpecStrip are the five    *)
(* specifications.  While one component runs the others stay idle.         *)
(***************************************************************************)
EXTENDS Integers, Sequences, FiniteSets, TLC

\* State of HistoryItem.
VARIABLES
  itemId,                \* item.id
  selectionMode,         \* prop selectionMode
  hasOnToggleSelection,  \* prop onToggleSelection was supplied
  hasOnDuplicate,        \* prop onDuplicate was supplied
  hasOnDelete,           \* prop onDelete was supplied
  editing,               \* useEditChatDescription().editing
  lastClick,             \* the element the last click hit, or ABSENT
  ev                     \* what that click did

histVars == <<itemId, selectionMode, hasOnToggleSelection, hasOnDuplicate,
              hasOnDelete, editing, lastClick, ev>>

\* State of the quick-action button override.
VARIABLES
  mounted,          \* Markdown was rendered a first time
  appendProp,       \* prop append was supplied to the current render
  setChatModeProp,  \* prop setChatMode was supplied to the current render
  components,       \* the props the memoised overrides captured
  dataProps,        \* node.properties of the button
  iconClass,        \* the icon class the render chose (ABSENT: plain button)
  now,              \* Date.now()
  clicked,          \* the button was clicked since it was rendered
  calls,            \* the calls the last click made, in order
  logged,           \* console.error calls of the last click
  threw             \* the last click's handler threw

btnVars == <<mounted, appendProp, setChatModeProp, components, dataProps,
             iconClass, now, clicked, calls, logged, threw>>

\* State of the div override.
VARIABLES
  divNode,    \* the div node: className and properties
  divOut,     \* what the override rendered it as (ABSENT: not rendered yet)
  divErrors   \* number of errors the render logged

divVars == <<divNode, divOut, divErrors>>

\* State of the pre override.
VARIABLES
  preNode,   \* the pre node: its children, and the first child's className
  preOut     \* what the override rendered, or threw (ABSENT: not rendered)

preVars == <<preNode, preOut>>

\* State of stripCodeFenceFromArtifact.
VARIABLES
  markdown,    \* the children string handed to Markdown
  stripPass,   \* how many times the transform was applied
  stripped,    \* stripCodeFenceFromArtifact(markdown)
  restripped   \* the transform applied to its own output

stripVars == <<markdown, stripPass, stripped, restripped>>

vars == <<histVars, btnVars, divVars, preVars, stripVars>>

notHistory == <<btnVars, divVars, preVars, stripVars>>
notButton == <<histVars, divVars, preVars, stripVars>>
notDiv == <<histVars, btnVars, preVars, stripVars>>
notPre == <<histVars, btnVars, divVars, stripVars>>
notStrip == <<histVars, btnVars, divVars, preVars>>

\* JavaScript's undefined, and a value whose typeof is not 'string'.
ABSENT == "<undefined>"
NONSTRING == "<number>"

Truthy(v) == v \notin {ABSENT, ""}
IsString(v) == v \notin {ABSENT, NONSTRING}

(***************************************************************************)
(* HistoryItem                                                             *)
(***************************************************************************)
ItemIds == {"chat-1", "chat-2"}

ActionButtons == {"export", "duplicate", "rename", "delete"}

\* The elements a click can hit.
Targets == {"row", "checkbox", "anchor", "input"} \cup ActionButtons

\* The elements the current render contains.
Rendered(t) ==
  CASE t = "row" -> TRUE
    [] t = "checkbox" -> selectionMode
    [] t = "input" -> editing
    [] t = "duplicate" -> ~editing /\ hasOnDuplicate
    [] OTHER -> ~editing

\* The propagation path of a click, from the element hit up to the row div.
Path(t) ==
  CASE t = "row" -> <<"row">>
    [] t = "checkbox" -> <<"checkbox", "checkboxWrapper", "row">>
    [] t = "input" -> <<"input", "form", "row">>
    [] t = "anchor" -> <<"anchor", "row">>
    [] OTHER -> <<t, "anchor", "row">>

NoEvent ==
  [defaultPrevented |-> FALSE, propagationStopped |-> FALSE,
   itemClicks |-> 0, toggled |-> <<>>, exported |-> <<>>,
   duplicated |-> <<>>, deleted |-> 0, editToggles |-> 0,
   navigated |-> FALSE]

PreventDefault(e) == [e EXCEPT !.defaultPrevented = TRUE]
StopPropagation(e) == [e EXCEPT !.propagationStopped = TRUE]

\* onToggleSelection?.(item.id)
OnToggleSelection(e) ==
  IF hasOnToggleSelection THEN [e EXCEPT !.toggled = Append(@, itemId)] ELSE e

HandleItemClickNoStop(e) ==
  IF selectionMode
    THEN OnToggleSelection(PreventDefault([e EXCEPT !.itemClicks = @ + 1]))
    ELSE [e EXCEPT !.itemClicks = @ + 1]

HandleItemClick(e) ==
  IF selectionMode
    THEN OnToggleSelection(StopPropagation(PreventDefault(
           [e EXCEPT !.itemClicks = @ + 1])))
    ELSE [e EXCEPT !.itemClicks = @ + 1]

HandleCheckboxChange(e) == OnToggleSelection(e)

HandleDeleteClick(e) ==
  LET s == StopPropagation(PreventDefault(e))
  IN IF hasOnDelete THEN [s EXCEPT !.deleted = @ + 1] ELSE s

ExportClick(e) == [PreventDefault(e) EXCEPT !.exported = Append(@, itemId)]

DuplicateClick(e) ==
  LET p == PreventDefault(e)
  IN IF hasOnDuplicate THEN [p EXCEPT !.duplicated = Append(@, itemId)] ELSE p

RenameClick(e) == [PreventDefault(e) EXCEPT !.editToggles = @ + 1]

\* The click handler the render attaches to an element (none: identity).
OnClick(el, e) ==
  CASE el = "row" -> IF selectionMode THEN HandleItemClick(e) ELSE e
    [] el = "anchor" -> IF selectionMode THEN HandleItemClick(e) ELSE e
    [] el = "checkboxWrapper" -> StopPropagation(e)
    [] el = "checkbox" -> HandleCheckboxChange(e)
    [] el = "export" -> ExportClick(e)
    [] el = "duplicate" -> DuplicateClick(e)
    [] el = "rename" -> RenameClick(e)
    [] el = "delete" -> HandleDeleteClick(e)
    [] OTHER -> e

\* Bubbling: each element's handler runs until one stops the propagation.
RECURSIVE Bubble(_, _)
Bubble(path, e) ==
  IF path = <<>> \/ e.propagationStopped
    THEN e
    ELSE Bubble(Tail(path), OnClick(Head(path), e))

InAnchor(t) == t \in {"anchor"} \cup ActionButtons

\* The whole click: the handlers, then the browser's default action.
Dispatch(t) ==
  LET e == Bubble(Path(t), NoEvent)
  IN [e EXCEPT !.navigated = InAnchor(t) /\ ~e.defaultPrevented]

\* useEditChatDescription().toggleEditMode
ToggleEditMode(b) == ~b

HistoryInit ==
  /\ itemId \in ItemIds
  /\ selectionMode \in BOOLEAN
  /\ hasOnToggleSelection \in BOOLEAN
  /\ hasOnDuplicate \in BOOLEAN
  /\ hasOnDelete \in BOOLEAN
  /\ editing = FALSE
  /\ lastClick = ABSENT
  /\ ev = NoEvent

HistoryIdle ==
  /\ itemId = "chat-1"
  /\ selectionMode = FALSE
  /\ hasOnToggleSelection = FALSE
  /\ hasOnDuplicate = FALSE
  /\ hasOnDelete = FALSE
  /\ editing = FALSE
  /\ lastClick = ABSENT
  /\ ev = NoEvent

\* A click on one of the rendered elements.
Click(t) ==
  /\ Rendered(t)
  /\ lastClick' = t
  /\ ev' = Dispatch(t)
  /\ editing' = IF ev'.editToggles = 1 THEN ToggleEditMode(editing) ELSE editing
  /\ UNCHANGED <<itemId, selectionMode, hasOnToggleSelection, hasOnDuplicate,
                 hasOnDelete>>
  /\ UNCHANGED notHistory

\* Submit or blur of the rename form: commits and leaves edit mode.
HandleSubmit ==
  /\ editing
  /\ editing' = FALSE
  /\ lastClick' = ABSENT
  /\ ev' = NoEvent
  /\ UNCHANGED <<itemId, selectionMode, hasOnToggleSelection, hasOnDuplicate,
                 hasOnDelete>>
  /\ UNCHANGED notHistory

\* The parent renders the item again with other props.
RerenderItem ==
  /\ selectionMode' \in BOOLEAN
  /\ hasOnToggleSelection' \in BOOLEAN
  /\ hasOnDuplicate' \in BOOLEAN
  /\ hasOnDelete' \in BOOLEAN
  /\ <<selectionMode', hasOnToggleSelection', hasOnDuplicate', hasOnDelete'>>
       # <<selectionMode, hasOnToggleSelection, hasOnDuplicate, hasOnDelete>>
  /\ lastClick' = ABSENT
  /\ ev' = NoEvent
  /\ UNCHANGED <<itemId, editing>>
  /\ UNCHANGED notHistory

HistoryNext ==
  \/ \E t \in Targets : Click(t)
  \/ HandleSubmit
  \/ RerenderItem

(***************************************************************************)
(* Markdown: the quick-action button override                              *)
(***************************************************************************)
MaxClock == 2

KnownTypes == {"file", "message", "implement", "link"}

\* Values of the data-type attribute.
TypeValues == KnownTypes \cup {"other", "constructor", "", ABSENT, NONSTRING}

\* Values of the data-href attribute.
HrefValues == {"/foo", "https://example.com/a", "not a url", "http://[", "",
               ABSENT, NONSTRING}

PathValues == {"src/index.ts", ABSENT}

\* new URL(href, window.location.origin), the origin being https://app.local:
\* the resolved URL, or a TypeError.
NewURL(href) ==
  CASE href = "/foo" -> [ok |-> TRUE, url |-> "https://app.local/foo"]
    [] href = "https://example.com/a" ->
         [ok |-> TRUE, url |-> "https://example.com/a"]
    [] href = "not a url" ->
         [ok |-> TRUE, url |-> "https://app.local/not%20a%20url"]
    [] href = "" -> [ok |-> TRUE, url |-> "https://app.local/"]
    [] OTHER -> [ok |-> FALSE, url |-> ""]

\* dataProps['data-x'] || dataProps.dataX
Attr(kebab, camel) == IF Truthy(kebab) THEN kebab ELSE camel

TypeOf(p) == Attr(p.kebabType, p.dataType)
HrefOf(p) == Attr(p.kebabHref, p.dataHref)
PathOf(p) == p.dataPath
MessageOf(p) == p.dataMessage

\* The guard of the override: a marker class or data-bolt-quick-action="true".
IsQuickAction(p) == p.markerClass \/ p.dataBoltQuickAction = "true"

\* Property names every object inherits from Object.prototype.
ObjectPrototypeKeys == {"constructor"}  \* among others

\* iconClassMap[safeType] ?? 'i-ph:question': the lookup of a plain object
\* also finds what the object inherits.
IconClassMap(safeType) ==
  CASE safeType = "file" -> "i-ph:file"
    [] safeType = "message" -> "i-ph:chats"
    [] safeType = "implement" -> "i-ph:code"
    [] safeType = "link" -> "i-ph:link"
    [] safeType \in ObjectPrototypeKeys -> "function Object() { [native code] }"
    [] OTHER -> "i-ph:question"

SafeType(type) == IF IsString(type) THEN type ELSE ""

\* The icon the button override renders; ABSENT for a plain button.
RenderIcon(p) ==
  IF IsQuickAction(p) THEN IconClassMap(SafeType(TypeOf(p))) ELSE ABSENT

NoId == <<"", 0>>

Call(fn, id, args) == [fn |-> fn, id |-> id, args |-> args]

ModelName == "model-x"
ProviderName == "provider-x"

\* The message both append branches build, up to its identifier.
UserMessage(prefix, t, message) ==
  Call("append", <<prefix, t>>, <<"user", ModelName, ProviderName, message>>)

LinkOutcomeNoCatch(href) ==
  LET u == NewURL(href)
  IN IF u.ok
       THEN [calls |-> <<Call("window.open", NoId,
                              <<u.url, "_blank", "noopener,noreferrer">>)>>,
             logged |-> <<>>, threw |-> FALSE]
       ELSE [calls |-> <<>>, logged |-> <<>>, threw |-> TRUE]

\* try { window.open(new URL(href, origin)...) } catch { console.error(...) }
LinkOutcome(href) ==
  LET u == NewURL(href)
  IN IF u.ok
       THEN [calls |-> <<Call("window.open", NoId,
                              <<u.url, "_blank", "noopener,noreferrer">>)>>,
             logged |-> <<>>, threw |-> FALSE]
       ELSE [calls |-> <<>>, logged |-> <<<<"Invalid URL:", href>>>>,
             threw |-> FALSE]

Quiet == [calls |-> <<>>, logged |-> <<>>, threw |-> FALSE]

ImplementOutcomeAppendFirst(t, message) ==
  [Quiet EXCEPT !.calls = <<UserMessage("quick-action-implement-", t, message),
                            Call("setChatMode", NoId, <<"build">>)>>]

ImplementOutcome(t, message) ==
  [Quiet EXCEPT !.calls = <<Call("setChatMode", NoId, <<"build">>),
                            UserMessage("quick-action-implement-", t, message)>>]

MessageOutcomeNoRole(t, message) ==
  [Quiet EXCEPT !.calls =
     <<Call("append", <<"quick-action-message-", t>>,
            <<"assistant", ModelName, ProviderName, message>>)>>]

MessageOutcome(t, message) ==
  [Quiet EXCEPT !.calls = <<UserMessage("quick-action-message-", t, message)>>]

\* The onClick of the quick-action button, with the closure c it was built in.
OnQuickActionClick(c, p, t) ==
  LET type == TypeOf(p)
      href == HrefOf(p)
  IN CASE type = "file" ->
            [Quiet EXCEPT !.calls =
               <<Call("openArtifactInWorkbench", NoId, <<PathOf(p)>>)>>]
       [] type = "message" /\ c.append -> MessageOutcome(t, MessageOf(p))
       [] type = "implement" /\ c.append /\ c.setChatMode ->
            ImplementOutcome(t, MessageOf(p))
       [] type = "link" /\ IsString(href) -> LinkOutcome(href)
       [] OTHER -> Quiet

DataProps ==
  [markerClass : BOOLEAN, dataBoltQuickAction : {"true", ABSENT},
   kebabType : {ABSENT, "message"}, dataType : TypeValues,
   kebabHref : {ABSENT}, dataHref : HrefValues,
   dataPath : PathValues, dataMessage : {"do it"}]

NoComponents == [append |-> FALSE, setChatMode |-> FALSE]

ButtonInit ==
  /\ mounted = FALSE
  /\ appendProp \in BOOLEAN
  /\ setChatModeProp \in BOOLEAN
  /\ components = NoComponents
  /\ dataProps \in DataProps
  /\ iconClass = ABSENT
  /\ now = 0
  /\ clicked = FALSE
  /\ calls = <<>>
  /\ logged = <<>>
  /\ threw = FALSE

ButtonIdle ==
  /\ mounted = FALSE
  /\ appendProp = FALSE
  /\ setChatModeProp = FALSE
  /\ components = NoComponents
  /\ dataProps = [markerClass |-> FALSE, dataBoltQuickAction |-> ABSENT,
                  kebabType |-> ABSENT, dataType |-> ABSENT,
                  kebabHref |-> ABSENT, dataHref |-> ABSENT,
                  dataPath |-> ABSENT, dataMessage |-> "do it"]
  /\ iconClass = ABSENT
  /\ now = 0
  /\ clicked = FALSE
  /\ calls = <<>>
  /\ logged = <<>>
  /\ threw = FALSE

\* The first render: useMemo builds the overrides, which capture append and
\* setChatMode, and ReactMarkdown renders the button through them.
RenderMarkdown ==
  /\ ~mounted
  /\ mounted' = TRUE
  /\ components' = [append |-> appendProp, setChatMode |-> setChatModeProp]
  /\ iconClass' = RenderIcon(dataProps)
  /\ UNCHANGED <<appendProp, setChatModeProp, dataProps, now, clicked, calls,
                 logged, threw>>
  /\ UNCHANGED notButton

\* A click on the rendered button; a plain button has no handler of this layer.
ClickButton ==
  /\ mounted
  /\ LET o == IF IsQuickAction(dataProps)
                THEN OnQuickActionClick(components, dataProps, now)
                ELSE Quiet
     IN /\ calls' = o.calls
        /\ logged' = o.logged
        /\ threw' = o.threw
  /\ clicked' = TRUE
  /\ UNCHANGED <<mounted, appendProp, setChatModeProp, components, dataProps,
                 iconClass, now>>
  /\ UNCHANGED notButton

\* The parent renders Markdown again: useMemo(..., []) keeps the overrides,
\* and so the append and setChatMode, of the first render.
RerenderMarkdown ==
  /\ mounted
  /\ appendProp' \in BOOLEAN
  /\ setChatModeProp' \in BOOLEAN
  /\ <<appendProp', setChatModeProp'>> # <<appendProp, setChatModeProp>>
  /\ UNCHANGED <<mounted, components, dataProps, iconClass, now, clicked,
                 calls, logged, threw>>
  /\ UNCHANGED notButton

\* Time passes.
Tick ==
  /\ now < MaxClock
  /\ now' = now + 1
  /\ UNCHANGED <<mounted, appendProp, setChatModeProp, components, dataProps,
                 iconClass, clicked, calls, logged, threw>>
  /\ UNCHANGED notButton

ButtonNext ==
  \/ RenderMarkdown
  \/ ClickButton
  \/ RerenderMarkdown
  \/ Tick

(***************************************************************************)
(* Markdown: the div override                                              *)
(***************************************************************************)
MaxClassTokens == 2

ArtifactMarker == "__boltArtifact__"
SelectedElementMarker == "__boltSelectedElement__"
ThoughtMarker == "__boltThought__"
QuickActionMarker == "__boltQuickAction__"

Markers == {ArtifactMarker, SelectedElementMarker, ThoughtMarker,
            QuickActionMarker}

\* A class name is a sequence of tokens, each a marker or some other text;
\* the empty sequence is the class name absent.
ClassTokens == Markers \cup {"plain"}

SeqsUpTo(S, n) == UNION {[1..k -> S] : k \in 0..n}

\* className?.includes(marker)
Includes(cls, marker) == \E i \in 1..Len(cls) : cls[i] = marker

\* JSON.parse of the data-element attribute succeeds.
ParsesAsJSON(v) == v = "{\"tagName\":\"div\"}"

\* Errors the artifact and selected-element branches log.
MissingId(n) == IF ~Truthy(n.dataMessageId) THEN 1 ELSE 0

BadElement(n) ==
  IF Truthy(n.dataElement) /\ ~ParsesAsJSON(n.dataElement) THEN 1 ELSE 0

DivOverrideThoughtFirst(n) ==
  IF Includes(n.className, ThoughtMarker)
    THEN [kind |-> "thought", errors |-> 0]
  ELSE IF Includes(n.className, ArtifactMarker)
    THEN [kind |-> "artifact", errors |-> MissingId(n)]
  ELSE IF Includes(n.className, SelectedElementMarker)
    THEN [kind |-> "selected-element", errors |-> BadElement(n) + MissingId(n)]
  ELSE IF Includes(n.className, QuickActionMarker)
          \/ Truthy(n.dataBoltQuickAction)
    THEN [kind |-> "quick-action", errors |-> 0]
  ELSE [kind |-> "generic", errors |-> 0]

\* components.div: the first branch whose test passes renders the node.
DivOverride(n) ==
  IF Includes(n.className, ArtifactMarker)
    THEN [kind |-> "artifact", errors |-> MissingId(n)]
  ELSE IF Includes(n.className, SelectedElementMarker)
    THEN [kind |-> "selected-element", errors |-> BadElement(n) + MissingId(n)]
  ELSE IF Includes(n.className, ThoughtMarker)
    THEN [kind |-> "thought", errors |-> 0]
  ELSE IF Includes(n.className, QuickActionMarker)
          \/ Truthy(n.dataBoltQuickAction)
    THEN [kind |-> "quick-action", errors |-> 0]
  ELSE [kind |-> "generic", errors |-> 0]

DivNodes ==
  [className : SeqsUpTo(ClassTokens, MaxClassTokens),
   dataBoltQuickAction : {ABSENT, "", "true"},
   dataMessageId : {ABSENT, "msg-1"},
   dataElement : {ABSENT, "{\"tagName\":\"div\"}", "{oops"}]

DivInit ==
  /\ divNode \in DivNodes
  /\ divOut = ABSENT
  /\ divErrors = 0

DivIdle ==
  /\ divNode = [className |-> <<>>, dataBoltQuickAction |-> ABSENT,
                dataMessageId |-> ABSENT, dataElement |-> ABSENT]
  /\ divOut = ABSENT
  /\ divErrors = 0

\* ReactMarkdown renders the node through the override.
RenderDiv ==
  /\ divOut = ABSENT
  /\ divOut' = DivOverride(divNode).kind
  /\ divErrors' = DivOverride(divNode).errors
  /\ UNCHANGED divNode
  /\ UNCHANGED notDiv

DivNext == RenderDiv

(***************************************************************************)
(* Markdown: the pre override                                              *)
(***************************************************************************)
MaxChildren == 2
MaxGrandChildren == 1

TextNode == [type |-> "text", tagName |-> ABSENT, children |-> <<>>]

\* Children of a pre node: text nodes, and elements with their own children
\* given by type.
ChildNodes ==
  {TextNode} \cup
  [type : {"element"}, tagName : {"code", "span"},
   children : SeqsUpTo({"text", "element"}, MaxGrandChildren)]

\* A class name is a sequence of the tokens "language-", "python" (a run of
\* word characters) and " ".
\* /language-(\w+)/.exec(String(className) || ''), defaulting to plaintext:
\* the word characters after the first "language-" that has some.
RECURSIVE Language(_)
Language(cls) ==
  IF Len(cls) < 2 THEN "plaintext"
  ELSE IF cls[1] = "language-" /\ cls[2] = "python" THEN "python"
  ELSE IF cls[1] = "language-" /\ cls[2] = "language-" THEN "language"
  ELSE Language(Tail(cls))

\* components.pre: only node.children[0] is looked at, and its children[0]
\* is read without a test that it exists.
PreOverride(n) ==
  IF n.children = <<>>
    THEN [kind |-> "pre", language |-> ABSENT]
  ELSE IF n.children[1].type = "element" /\ n.children[1].tagName = "code"
    THEN IF n.children[1].children = <<>>
           THEN [kind |-> "TypeError", language |-> ABSENT]
         ELSE IF n.children[1].children[1] = "text"
           THEN [kind |-> "CodeBlock", language |-> Language(n.className)]
         ELSE [kind |-> "pre", language |-> ABSENT]
  ELSE [kind |-> "pre", language |-> ABSENT]

PreNodes ==
  [children : SeqsUpTo(ChildNodes, MaxChildren),
   className : {<<>>, <<"language-">>, <<"language-", "python">>,
                <<"python", " ", "language-", "python">>}]

NotRendered == [kind |-> ABSENT, language |-> ABSENT]

PreInit ==
  /\ preNode \in PreNodes
  /\ preOut = NotRendered

PreIdle ==
  /\ preNode = [children |-> <<>>, className |-> <<>>]
  /\ preOut = NotRendered

\* ReactMarkdown renders the node through the override.
RenderPre ==
  /\ preOut = NotRendered
  /\ preOut' = PreOverride(preNode)
  /\ UNCHANGED preNode
  /\ UNCHANGED notPre

PreNext == RenderPre

(***************************************************************************)
(* stripCodeFenceFromArtifact                                              *)
(***************************************************************************)
MaxLen == 7

\* A string is a sequence over: F a run of three backticks, w a word character,
\* M the marker __boltArtifact__ (made of word characters), a space, a newline.
Fence == "F"
Marker == "M"
Space == " "
Newline == "\n"
WordChars == {"w", Marker}
Chars == {Fence, "w", Marker, Space, Newline}

\* content.includes('__boltArtifact__')
HasMarker(str) == \E i \in 1..Len(str) : str[i] = Marker

\* content.split('\n')
RECURSIVE Split(_)
Split(str) ==
  IF \A i \in 1..Len(str) : str[i] # Newline
    THEN <<str>>
    ELSE LET k == CHOOSE i \in 1..Len(str) :
                    str[i] = Newline /\ \A j \in 1..(i - 1) : str[j] # Newline
         IN <<SubSeq(str, 1, k - 1)>> \o Split(SubSeq(str, k + 1, Len(str)))

\* lines.join('\n')
RECURSIVE Join(_)
Join(lines) ==
  IF Len(lines) = 0 THEN <<>>
  ELSE IF Len(lines) = 1 THEN lines[1]
  ELSE lines[1] \o <<Newline>> \o Join(Tail(lines))

\* line.trim()
RECURSIVE Trim(_)
Trim(line) ==
  IF line = <<>> THEN line
  ELSE IF Head(line) = Space THEN Trim(Tail(line))
  ELSE IF line[Len(line)] = Space THEN Trim(SubSeq(line, 1, Len(line) - 1))
  ELSE line

\* line.match(/^```\w*$/)
MatchesOpenFence(line) ==
  /\ line # <<>>
  /\ line[1] = Fence
  /\ \A i \in 2..Len(line) : line[i] \in WordChars

\* line.match(/^```$/)
MatchesCloseFence(line) == line = <<Fence>>

\* lines.findIndex(line => line.includes('__boltArtifact__')), from 1; 0: none
FindIndex(lines) ==
  IF \E i \in 1..Len(lines) : HasMarker(lines[i])
    THEN CHOOSE i \in 1..Len(lines) :
           HasMarker(lines[i]) /\ \A j \in 1..(i - 1) : ~HasMarker(lines[j])
    ELSE 0

RemoveAt(lines, i) ==
  SubSeq(lines, 1, i - 1) \o SubSeq(lines, i + 1, Len(lines))

StripRemovingLines(content) ==
  IF content = <<>> \/ ~HasMarker(content) THEN content
  ELSE
    LET lines == Split(content)
        idx == FindIndex(lines)
        after == IF idx < Len(lines) /\ MatchesCloseFence(Trim(lines[idx + 1]))
                   THEN RemoveAt(lines, idx + 1) ELSE lines
        before == IF idx > 1 /\ MatchesOpenFence(Trim(after[idx - 1]))
                    THEN RemoveAt(after, idx - 1) ELSE after
    IN Join(before)

StripNoEarlyReturn(content) ==
  LET lines == Split(content)
      idx == FindIndex(lines)
      before == IF idx > 1 /\ MatchesOpenFence(Trim(lines[idx - 1]))
                  THEN [lines EXCEPT ![idx - 1] = <<>>] ELSE lines
      after == IF idx < Len(before)
                  /\ MatchesCloseFence(Trim(before[idx + 1]))
                 THEN [before EXCEPT ![idx + 1] = <<>>] ELSE before
  IN Join(after)

StripCodeFenceFromArtifact(content) ==
  IF content = <<>> \/ ~HasMarker(content) THEN content
  ELSE
    LET lines == Split(content)
        idx == FindIndex(lines)
        before == IF idx > 1 /\ MatchesOpenFence(Trim(lines[idx - 1]))
                    THEN [lines EXCEPT ![idx - 1] = <<>>] ELSE lines
        after == IF idx < Len(before)
                    /\ MatchesCloseFence(Trim(before[idx + 1]))
                   THEN [before EXCEPT ![idx + 1] = <<>>] ELSE before
    IN IF idx = 0 THEN content ELSE Join(after)

StripInit ==
  /\ markdown \in SeqsUpTo(Chars, MaxLen)
  /\ stripPass = 0
  /\ stripped = <<>>
  /\ restripped = <<>>

StripIdle ==
  /\ markdown = <<>>
  /\ stripPass = 0
  /\ stripped = <<>>
  /\ restripped = <<>>

\* Markdown renders: the transform is applied to its children.
StripOnce ==
  /\ stripPass = 0
  /\ stripPass' = 1
  /\ stripped' = StripCodeFenceFromArtifact(markdown)
  /\ UNCHANGED <<markdown, restripped>>
  /\ UNCHANGED notStrip

\* The output is rendered again.
StripAgain ==
  /\ stripPass = 1
  /\ stripPass' = 2
  /\ restripped' = StripCodeFenceFromArtifact(stripped)
  /\ UNCHANGED <<markdown, stripped>>
  /\ UNCHANGED notStrip

StripNext ==
  \/ StripOnce
  \/ StripAgain

(***************************************************************************)
(* Specifications                                                          *)
(***************************************************************************)
HistorySpecInit == HistoryInit /\ ButtonIdle /\ DivIdle /\ PreIdle /\ StripIdle
SpecHistory == HistorySpecInit /\ [][HistoryNext]_vars

ButtonSpecInit == ButtonInit /\ HistoryIdle /\ DivIdle /\ PreIdle /\ StripIdle
SpecButton == ButtonSpecInit /\ [][ButtonNext]_vars

DivSpecInit == DivInit /\ HistoryIdle /\ ButtonIdle /\ PreIdle /\ StripIdle
SpecDiv == DivSpecInit /\ [][DivNext]_vars

PreSpecInit == PreInit /\ HistoryIdle /\ ButtonIdle /\ DivIdle /\ StripIdle
SpecPre == PreSpecInit /\ [][PreNext]_vars

StripSpecInit == StripInit /\ HistoryIdle /\ ButtonIdle /\ DivIdle /\ PreIdle
SpecStrip == StripSpecInit /\ [][StripNext]_vars

(***************************************************************************)
(* Claims                                                                  *)
(***************************************************************************)
\* C1: a click on any of the four action buttons of an item in view state
\* never reaches a row click handler: it never invokes onToggleSelection and
\* never navigates, whether selectionMode is on or off.
C1_ActionsNeverReachRow ==
  lastClick \in ActionButtons =>
    /\ ev.toggled = <<>>
    /\ ~ev.navigated

\* C2: a click on the row outside the checkbox (and outside the action
\* buttons): in selection mode onToggleSelection is invoked exactly once with
\* the item's id, when it was supplied, and the default action is prevented;
\* out of selection mode it is not invoked and the default is not prevented.
C2_RowClick ==
  lastClick \in {"row", "anchor", "input"} =>
    /\ selectionMode =>
         /\ hasOnToggleSelection => ev.toggled = <<itemId>>
         /\ ev.itemClicks = 1
         /\ ev.defaultPrevented
         /\ ~ev.navigated
    /\ ~selectionMode =>
         /\ ev.toggled = <<>>
         /\ ~ev.defaultPrevented
         /\ ev.navigated = (lastClick = "anchor")

C2_Witness ==
  /\ lastClick = "anchor"
  /\ selectionMode
  /\ hasOnToggleSelection
  /\ ev.toggled = <<itemId>>
  /\ ev.propagationStopped

\* C3: a click on an 'implement' button calls setChatMode('build') exactly
\* once and strictly before it calls append exactly once, when the overrides
\* captured both capabilities; when either is absent the click calls nothing.
C3_ImplementOrder ==
  (clicked /\ IsQuickAction(dataProps) /\ TypeOf(dataProps) = "implement") =>
    IF components.append /\ components.setChatMode
      THEN /\ Len(calls) = 2
           /\ calls[1] = Call("setChatMode", NoId, <<"build">>)
           /\ calls[2].fn = "append"
           /\ ~threw
      ELSE calls = <<>> /\ logged = <<>> /\ ~threw

C3_Witness ==
  /\ clicked
  /\ IsQuickAction(dataProps)
  /\ TypeOf(dataProps) = "implement"
  /\ Len(calls) = 2
  /\ calls[1].fn = "setChatMode"
  /\ calls[2].fn = "append"

AppendCalls == {i \in 1..Len(calls) : calls[i].fn = "append"}

\* C4 as stated: every message a quick-action click appends, for a 'message'
\* or an 'implement' button, has role 'user' and an identifier
\* quick-action-message-<timestamp>; a 'message' click without append
\* dispatches nothing.
C4_Original ==
  /\ \A i \in AppendCalls :
       /\ calls[i].args[1] = "user"
       /\ calls[i].id[1] = "quick-action-message-"
       /\ calls[i].id[2] \in 0..now
  /\ (clicked /\ IsQuickAction(dataProps) /\ TypeOf(dataProps) = "message"
      /\ ~components.append) => calls = <<>>

\* C4 amended: every message a quick-action click appends has role 'user';
\* its identifier is quick-action-message-<timestamp> for a 'message' button
\* and quick-action-implement-<timestamp> for an 'implement' button; a
\* 'message' click without append dispatches nothing.
C4_AppendedMessage ==
  /\ \A i \in AppendCalls :
       /\ calls[i].args[1] = "user"
       /\ calls[i].id[2] \in 0..now
       /\ TypeOf(dataProps) \in {"message", "implement"}
       /\ TypeOf(dataProps) = "message" =>
            calls[i].id[1] = "quick-action-message-"
       /\ TypeOf(dataProps) = "implement" =>
            calls[i].id[1] = "quick-action-implement-"
  /\ (clicked /\ IsQuickAction(dataProps) /\ TypeOf(dataProps) = "message"
      /\ ~components.append) => calls = <<>>

C4_Witness ==
  /\ clicked
  /\ TypeOf(dataProps) = "implement"
  /\ AppendCalls = {2}
  /\ calls[2].id = <<"quick-action-implement-", 1>>
  /\ calls[2].args[1] = "user"

\* The calls that make up the action of one quick-action type.
ActionOfOneType ==
  {<<>>, <<"openArtifactInWorkbench">>, <<"append">>,
   <<"setChatMode", "append">>, <<"window.open">>}

\* C5: a quick-action button whose type is none of file, message, implement
\* and link gets the icon i-ph:question and its click calls nothing; a click
\* on a button of any type performs the action of at most one type.
C5_UnknownType ==
  (mounted /\ IsQuickAction(dataProps)) =>
    /\ TypeOf(dataProps) \notin KnownTypes =>
         /\ iconClass = "i-ph:question"
         /\ calls = <<>>
    /\ [i \in 1..Len(calls) |-> calls[i].fn] \in ActionOfOneType

\* C9: a click on a 'link' button with a string href opens exactly one
\* browsing context on the resolved URL with target _blank and features
\* noopener,noreferrer when the href parses; when it does not, the error is
\* logged, nothing is opened or dispatched, and the handler does not throw.
C9_Link ==
  (clicked /\ IsQuickAction(dataProps) /\ TypeOf(dataProps) = "link"
   /\ IsString(HrefOf(dataProps))) =>
    /\ ~threw
    /\ IF NewURL(HrefOf(dataProps)).ok
         THEN /\ calls = <<Call("window.open", NoId,
                                <<NewURL(HrefOf(dataProps)).url, "_blank",
                                  "noopener,noreferrer">>)>>
              /\ logged = <<>>
         ELSE /\ calls = <<>>
              /\ Len(logged) = 1

C9_Witness ==
  /\ clicked
  /\ IsQuickAction(dataProps)
  /\ TypeOf(dataProps) = "link"
  /\ HrefOf(dataProps) = "http://["
  /\ calls = <<>>
  /\ logged = <<<<"Invalid URL:", "http://[">>>>
  /\ ~threw

HasClass(m) == Includes(divNode.className, m)

\* The kind the class name alone gives, in the priority order.
KindByClass ==
  IF HasClass(ArtifactMarker) THEN "artifact"
  ELSE IF HasClass(SelectedElementMarker) THEN "selected-element"
  ELSE IF HasClass(ThoughtMarker) THEN "thought"
  ELSE IF HasClass(QuickActionMarker) THEN "quick-action"
  ELSE "generic"

\* C6 as stated: the div override classifies a node purely by the markers its
\* class name contains, in the order artifact, selected-element, thought,
\* quick-action; a node with none of them is the generic div.
C6_Original == divOut # ABSENT => divOut = KindByClass

\* C6 amended: the class name decides by the highest-priority marker it
\* contains; a node whose class contains none of the four markers is
\* rendered as quick-action when its dataBoltQuickAction property is truthy
\* and as the generic div otherwise.
C6_Classification ==
  divOut # ABSENT =>
    /\ KindByClass # "generic" => divOut = KindByClass
    /\ KindByClass = "generic" =>
         divOut = IF Truthy(divNode.dataBoltQuickAction)
                    THEN "quick-action" ELSE "generic"

C6_Witness ==
  /\ divOut = "artifact"
  /\ HasClass(ThoughtMarker)
  /\ HasClass(ArtifactMarker)
  /\ Len(divNode.className) = 2

SoleCodeChildWithText ==
  /\ Len(preNode.children) = 1
  /\ preNode.children[1].type = "element"
  /\ preNode.children[1].tagName = "code"
  /\ Len(preNode.children[1].children) >= 1
  /\ preNode.children[1].children[1] = "text"

\* C7: the pre override renders through CodeBlock only when the sole child of
\* the node is a code element whose content is a text node; every other pre
\* node is rendered as the plain pre, and the override never throws.
C7_PreFallback ==
  preOut # NotRendered =>
    /\ preOut.kind # "TypeError"
    /\ preOut.kind = IF SoleCodeChildWithText THEN "CodeBlock" ELSE "pre"

\* What the claim calls an opening fence and a closing fence.
OpeningFence(line) ==
  /\ line # <<>>
  /\ line[1] = Fence
  /\ \A i \in 2..Len(line) : line[i] = "w"

ClosingFence(line) == line = <<Fence>>

\* The lines of the input that the claim says come out empty: the fences
\* around the marker line i.
Fenced(lines, i) ==
  /\ HasMarker(lines[i])
  /\ i > 1
  /\ i < Len(lines)
  /\ OpeningFence(lines[i - 1])
  /\ ClosingFence(lines[i + 1])

\* C8 as stated: for any line with the marker that has an opening fence right
\* before it and a closing fence right after it, both fence lines are empty
\* in the output, and the output has as many lines as the input.
C8_Original ==
  stripPass >= 1 =>
    /\ Len(Split(stripped)) = Len(Split(markdown))
    /\ \A i \in 1..Len(Split(markdown)) :
         Fenced(Split(markdown), i) =>
           /\ Split(stripped)[i - 1] = <<>>
           /\ Split(stripped)[i + 1] = <<>>

\* C8 amended: for the first line with the marker, if the line right before
\* it is an opening fence and the line right after it is a closing fence,
\* both fence lines are empty in the output; the output has as many lines as
\* the input.
C8_FirstMarkerLine ==
  stripPass >= 1 =>
    /\ Len(Split(stripped)) = Len(Split(markdown))
    /\ \A i \in 1..Len(Split(markdown)) :
         (Fenced(Split(markdown), i)
          /\ \A j \in 1..(i - 1) : ~HasMarker(Split(markdown)[j])) =>
           /\ Split(stripped)[i - 1] = <<>>
           /\ Split(stripped)[i + 1] = <<>>
           /\ Split(stripped)[i] = Split(markdown)[i]

C8_Witness ==
  /\ stripPass >= 1
  /\ markdown = <<Fence, "w", Newline, Marker, Newline, Fence>>
  /\ stripped = <<Newline, Marker, Newline>>

\* C10: the transform is idempotent on every input, and returns an input
\* without the marker, the empty string included, unchanged.
C10_Idempotent ==
  /\ (stripPass >= 1 /\ ~HasMarker(markdown)) => stripped = markdown
  /\ stripPass = 2 => restripped = stripped

C10_Witness ==
  /\ stripPass = 2
  /\ HasMarker(markdown)
  /\ stripped # markdown
  /\ restripped = stripped
====
